---- MODULE Spec2Model ----
(***************************************************************************)
(* State-machine model of the test-tracker HTTP service (src/src/server.ts) *)
(* with its two tables (Test, File), the artifact store on disk and the     *)
(* bearer gate.  Strings are sequences of one-character strings, so that    *)
(* path.basename, path.join, String.startsWith and Number() are computed    *)
(* character by character.  Paths on disk are kept normalised, as the       *)
(* sequence of their segments below the filesystem root.                    *)
(***************************************************************************)
EXTENDS Integers, Sequences, FiniteSets, TLC

VARIABLES bearerToken, now, tests, files, dirs, disk, req, dispatches

vars == <<bearerToken, now, tests, files, dirs, disk, req, dispatches>>

(* ------------------------------ bounds -------------------------------- *)
MaxTime == 1
MaxTests == 2
MaxFiles == 2
MaxChunks == 2
MaxDispatch == 1

Procs == {"p", "q"}

(* ----------------------- strings and sentinels ------------------------ *)
\* JavaScript undefined / null for a string-valued or time-valued slot.
Undefined == <<"undefined">>
Null == -1
Hole == "0"

Slash == "/"
Dot == "."

Max(a, b) == IF a > b THEN a ELSE b

\* String.prototype.startsWith
StartsWith(s, prefix) ==
  /\ Len(s) >= Len(prefix)
  /\ SubSeq(s, 1, Len(prefix)) = prefix

\* String.prototype.slice(n)
Slice(s, n) == SubSeq(s, n + 1, Len(s))

(* ------------------------------ node:path ----------------------------- *)
\* Index of the last character of s that is not a separator (0 when none).
RECURSIVE LastNonSlash(_, _)
LastNonSlash(s, i) ==
  IF i = 0 THEN 0
  ELSE IF s[i] # Slash THEN i ELSE LastNonSlash(s, i - 1)

\* Index of the last separator at or before i (0 when none).
RECURSIVE LastSlashBefore(_, _)
LastSlashBefore(s, i) ==
  IF i = 0 THEN 0
  ELSE IF s[i] = Slash THEN i ELSE LastSlashBefore(s, i - 1)

\* A mutation of basename: the name is used as the client sent it.
basenameKeepPath(s) == s

\* path.basename (POSIX): drop trailing separators, keep what follows the
\* last remaining separator; "" when the string holds separators only.
basename(s) ==
  LET end == LastNonSlash(s, Len(s))
      start == LastSlashBefore(s, end)
  IN IF end = 0 THEN <<>> ELSE SubSeq(s, start + 1, end)

\* The segments of a string, split at separators, empty segments dropped.
RECURSIVE Segments(_)
Segments(s) ==
  IF s = <<>> THEN <<>>
  ELSE LET end == LastNonSlash(s, Len(s))
           start == LastSlashBefore(s, end)
       IN IF end = 0 THEN <<>>
          ELSE Append(Segments(SubSeq(s, 1, start)), SubSeq(s, start + 1, end))

\* path.normalize of an absolute path: "." is dropped, ".." removes the
\* segment before it and is dropped at the root.
RECURSIVE Normalize(_, _)
Normalize(done, rest) ==
  IF rest = <<>> THEN done
  ELSE LET seg == Head(rest)
       IN IF seg = <<Dot>> THEN Normalize(done, Tail(rest))
          ELSE IF seg = <<Dot, Dot>>
               THEN Normalize(IF done = <<>> THEN <<>>
                              ELSE SubSeq(done, 1, Len(done) - 1), Tail(rest))
               ELSE Normalize(Append(done, seg), Tail(rest))

\* path.join(base, s) for a normalised absolute base.
join(base, s) == Normalize(base, Segments(s))

\* p is a proper prefix of q: q lies strictly below the directory p.
IsInside(q, p) ==
  /\ Len(q) > Len(p)
  /\ SubSeq(q, 1, Len(p)) = p

\* The ancestors of a path, the path itself included.
Prefixes(p) == { SubSeq(p, 1, n) : n \in 0..Len(p) }

ParentOf(p) == IF p = <<>> THEN <<>> ELSE SubSeq(p, 1, Len(p) - 1)

\* upload_path, the artifact-store root (an absolute directory).
upload_path == << <<"r">>, <<"u">> >>

(* ------------------------------ inputs -------------------------------- *)
\* Test names a client may send: an ordinary name, a name with a directory
\* separator, and the parent-directory name.
TestNames == { <<"a">>, <<"a", "/", "b">>, <<Dot, Dot>> }

\* data.filename as the upload handler may receive it.
FileNames == { <<"b">>, <<Dot, Dot, "/", "b">>, <<Dot>>, <<Dot, Dot>>, <<>> }

Params == { "{}" }

\* Upload bodies, as <<byte, number of chunks>>: empty, or chunks of one byte.
Bodies == { <<"x", 0>> } \cup ({ "x", "y" } \X (1..MaxChunks))

\* The :id route parameter of download and view.
IdParams == { <<"1">>, <<"2">>, <<"0", "1">>, <<"u", "1">>, <<"u", "2">> }

Bearer == <<"B", "e", "a", "r", "e", "r", " ">>

\* BEARER_TOKEN as read at start-up: unset, empty or a secret.
Secrets == { Undefined, <<>>, <<"s", "t">> }

\* The Authorization header: absent, or one of these strings.
Headers == { Undefined,
             Bearer \o <<"s", "t">>,
             Bearer \o <<"s", "s">>,
             Bearer \o <<"s">>,
             Bearer \o <<"s", "t", "t">>,
             Bearer,
             <<"b", "e", "a", "r", "e", "r", " ", "s", "t">>,
             <<"s", "t">> }

(* --------------------------- the two tables --------------------------- *)
\* prisma.test.findUnique({ where: { name } }): the row's id, 0 when none.
TestByName(n) ==
  IF \E i \in 1..Len(tests) : tests[i].name = n
  THEN CHOOSE i \in 1..Len(tests) : tests[i].name = n
  ELSE 0

\* A mutation of the insert: startedAt defaults to the current time.
NewTestStarted(n, ps) ==
  [id |-> Len(tests) + 1, name |-> n, createdAt |-> now,
   startedAt |-> now, finishedAt |-> Null, parameters |-> ps]

\* The row prisma.test.create inserts: AUTOINCREMENT id, createdAt
\* DEFAULT CURRENT_TIMESTAMP, startedAt and finishedAt NULL.
NewTest(n, ps) ==
  [id |-> Len(tests) + 1, name |-> n, createdAt |-> now,
   startedAt |-> Null, finishedAt |-> Null, parameters |-> ps]

\* The opaque external identifier of a File row (never a decimal number).
Uid(id) == <<"u">> \o (IF id = 1 THEN <<"1">> ELSE IF id = 2 THEN <<"2">>
                       ELSE IF id = 3 THEN <<"3">> ELSE <<"4">>)

\* The row prisma.file.create inserts; size keeps its column default.
NewFile(orig, path, testId) ==
  [id |-> Len(files) + 1, uid |-> Uid(Len(files) + 1), originalName |-> orig,
   path |-> path, size |-> 0, testId |-> testId]

Digits == { "0", "1", "2", "3", "4", "5", "6", "7", "8", "9" }

DigitValue(c) ==
  CASE c = "0" -> 0 [] c = "1" -> 1 [] c = "2" -> 2 [] c = "3" -> 3
    [] c = "4" -> 4 [] c = "5" -> 5 [] c = "6" -> 6 [] c = "7" -> 7
    [] c = "8" -> 8 [] c = "9" -> 9

\* /^\d+$/.test(id)
IsNumeric(s) == Len(s) > 0 /\ \A i \in 1..Len(s) : s[i] \in Digits

\* Number(id) of a string of decimal digits.
RECURSIVE Number(_)
Number(s) ==
  IF s = <<>> THEN 0
  ELSE 10 * Number(SubSeq(s, 1, Len(s) - 1)) + DigitValue(s[Len(s)])

\* prisma.file.findUnique({ where }) with where = { id: Number(id) } for a
\* numeric parameter and { id } (a string against the INTEGER key, which
\* the client refuses) otherwise: the row's id, 0 for no row, -1 for a
\* rejected query.
FindFile(id) ==
  IF IsNumeric(id)
  THEN IF Number(id) \in 1..Len(files) THEN Number(id) ELSE 0
  ELSE -1

(* --------------------------- artifact store --------------------------- *)
\* fs.existsSync
existsSync(path) == path \in dirs \/ path \in DOMAIN disk

\* fs.mkdirSync(path, { recursive: true }) fails when an ancestor, or the
\* path itself, is a regular file.
CanMkdir(path) == \A a \in Prefixes(path) : a \notin DOMAIN disk

\* Opening a path for writing fails on a directory (EISDIR) and when its
\* parent is not a directory (ENOTDIR, ENOENT).
CanOpenForWrite(path) == path \notin dirs /\ ParentOf(path) \in dirs

\* The bytes a request sends: len chunks of one byte value.
Content(r) == [i \in 1..r.len |-> r.byte]

\* A mutation of the write: the chunk goes to the end of the file.
WriteAtEnd(bs, pos, c) == Append(bs, c)

\* Writing chunk c at offset pos of a file whose bytes are bs; a gap left by
\* a truncation reads as zeros.
WriteAt(bs, pos, c) ==
  [i \in 1..Max(Len(bs), pos + 1) |->
     IF i = pos + 1 THEN c ELSE IF i <= Len(bs) THEN bs[i] ELSE Hole]

(* ------------------------------ the gate ------------------------------ *)
\* A mutation of the comparison: the last byte is not compared.
timingSafeEqualButLast(a, b) == \A i \in 1..(Len(a) - 1) : a[i] = b[i]

\* crypto.timingSafeEqual on buffers of equal length
timingSafeEqual(a, b) == \A i \in 1..Len(a) : a[i] = b[i]

\* bearerAuthHook: 401 when the request is rejected, 0 when it goes on.
bearerAuthHook(secret, auth) ==
  IF secret = Undefined \/ secret = <<>> THEN 401
  ELSE IF auth = Undefined \/ auth = <<>> \/ ~StartsWith(auth, Bearer) THEN 401
  ELSE LET token == Slice(auth, Len(Bearer))
       IN IF Len(token) # Len(secret) \/ ~timingSafeEqual(token, secret)
          THEN 401 ELSE 0

(* ------------------------------ requests ------------------------------ *)
\* A request slot: the route, where its handler stands, its inputs, the
\* handler's locals and the response (status 0: not answered yet).  conc is
\* history: this upload was in flight together with the other slot's upload.
NoRequest ==
  [kind |-> "none", pc |-> "done", name |-> <<>>, params |-> "{}",
   fname |-> <<>>, byte |-> "x", len |-> 0, pos |-> 0, hdr |-> Undefined,
   tid |-> 0, path |-> <<>>, status |-> 0, out |-> 0, conc |-> FALSE]

InFlight(k) == { p \in Procs : req[p].kind = k /\ req[p].pc # "done" }

Reply(r, status, out) == [r EXCEPT !.pc = "done", !.status = status, !.out = out]

\* The reply of the upload handler: what is kept of the request is the body
\* it sent and the test it found.
UploadReply(r, status, out) ==
  [NoRequest EXCEPT !.kind = "upload", !.byte = r.byte, !.len = r.len,
                    !.tid = r.tid, !.conc = r.conc,
                    !.status = status, !.out = out]

Init ==
  /\ bearerToken \in Secrets
  /\ now = 0
  /\ tests = <<>>
  /\ files = <<>>
  /\ dirs = Prefixes(upload_path)
  /\ disk = [q \in {} |-> 0]
  /\ req = [p \in Procs |-> NoRequest]
  /\ dispatches = 0

\* Time passes between two steps of the server.
Tick ==
  /\ now < MaxTime
  /\ now' = now + 1
  /\ UNCHANGED <<bearerToken, tests, files, dirs, disk, req, dispatches>>

(* ------------------- POST /test/new, start, finish -------------------- *)
\* The router accepts a validated POST /test/new body.
PostTestNew(p, names) ==
  /\ req[p].pc = "done"
  /\ \E n \in names, ps \in Params :
       /\ TestByName(n) # 0 \/ Len(tests) + Cardinality(InFlight("create")) < MaxTests
       /\ req' = [req EXCEPT ![p] = [NoRequest EXCEPT !.kind = "create",
                    !.pc = "db", !.name = n, !.params = ps]]
  /\ UNCHANGED <<bearerToken, now, tests, files, dirs, disk, dispatches>>

\* A mutation of the insert: the unique index on Test.name is not consulted.
TestCreateNoIndex(p) ==
  /\ req[p].kind = "create" /\ req[p].pc = "db"
  /\ tests' = Append(tests, NewTest(req[p].name, req[p].params))
  /\ req' = [req EXCEPT ![p] = Reply(@, 200, Len(tests) + 1)]
  /\ UNCHANGED <<bearerToken, now, files, dirs, disk, dispatches>>

\* prisma.test.create: the unique index Test_name_key refuses a second row
\* of the same name and the handler's rejection becomes a 500.
TestCreate(p) ==
  /\ req[p].kind = "create" /\ req[p].pc = "db"
  /\ IF TestByName(req[p].name) # 0
     THEN /\ req' = [req EXCEPT ![p] = Reply(@, 500, 0)]
          /\ UNCHANGED tests
     ELSE /\ tests' = Append(tests, NewTest(req[p].name, req[p].params))
          /\ req' = [req EXCEPT ![p] = Reply(@, 200, Len(tests) + 1)]
  /\ UNCHANGED <<bearerToken, now, files, dirs, disk, dispatches>>

\* The router accepts a validated POST /test/start body; conc records that
\* a start of the same name was in flight at that moment.
PostTestStart(p, names) ==
  /\ req[p].pc = "done"
  /\ \E n \in names :
       LET same == { r \in InFlight("start") : req[r].name = n }
       IN req' = [r \in Procs |->
                    IF r = p
                    THEN [NoRequest EXCEPT !.kind = "start", !.pc = "db",
                            !.name = n, !.conc = same # {}]
                    ELSE IF r \in same THEN [req[r] EXCEPT !.conc = TRUE]
                         ELSE req[r]]
  /\ UNCHANGED <<bearerToken, now, tests, files, dirs, disk, dispatches>>

\* A mutation of the filter of start: any row of that name matches.
StartMatchesAnyRow(i) == TRUE

\* The second half of where: { name, startedAt: null }.
StartMatches(i) == tests[i].startedAt = Null

\* A mutation of start: finishedAt is left as it is.
TestStartKeepFinished(p) ==
  /\ req[p].kind = "start" /\ req[p].pc = "db"
  /\ LET i == TestByName(req[p].name)
     IN IF i # 0 /\ StartMatches(i)
        THEN /\ tests' = [tests EXCEPT ![i].startedAt = now]
             /\ req' = [req EXCEPT ![p] = Reply(@, 200, i)]
        ELSE /\ req' = [req EXCEPT ![p] = Reply(@, 500, 0)]
             /\ UNCHANGED tests
  /\ UNCHANGED <<bearerToken, now, files, dirs, disk, dispatches>>

\* prisma.test.update({ where: { name, startedAt: null }, data: { startedAt:
\* new Date(), finishedAt: null } }); no matching row rejects, hence a 500.
TestStart(p) ==
  /\ req[p].kind = "start" /\ req[p].pc = "db"
  /\ LET i == TestByName(req[p].name)
     IN IF i # 0 /\ StartMatches(i)
        THEN /\ tests' = [tests EXCEPT ![i].startedAt = now,
                                       ![i].finishedAt = Null]
             /\ req' = [req EXCEPT ![p] = Reply(@, 200, i)]
        ELSE /\ req' = [req EXCEPT ![p] = Reply(@, 500, 0)]
             /\ UNCHANGED tests
  /\ UNCHANGED <<bearerToken, now, files, dirs, disk, dispatches>>

PostTestFinish(p, names) ==
  /\ req[p].pc = "done"
  /\ \E n \in names :
       req' = [req EXCEPT ![p] = [NoRequest EXCEPT !.kind = "finish",
                 !.pc = "db", !.name = n]]
  /\ UNCHANGED <<bearerToken, now, tests, files, dirs, disk, dispatches>>

\* A mutation of finish: the update writes startedAt as well.
TestFinishRestart(p) ==
  /\ req[p].kind = "finish" /\ req[p].pc = "db"
  /\ LET i == TestByName(req[p].name)
     IN IF i # 0
        THEN /\ tests' = [tests EXCEPT ![i].finishedAt = now,
                                       ![i].startedAt = now]
             /\ req' = [req EXCEPT ![p] = Reply(@, 200, i)]
        ELSE /\ req' = [req EXCEPT ![p] = Reply(@, 500, 0)]
             /\ UNCHANGED tests
  /\ UNCHANGED <<bearerToken, now, files, dirs, disk, dispatches>>

\* prisma.test.update({ where: { name }, data: { finishedAt: new Date() } });
\* the rejection for an unknown name is not caught and becomes a 500.
TestFinish(p) ==
  /\ req[p].kind = "finish" /\ req[p].pc = "db"
  /\ LET i == TestByName(req[p].name)
     IN IF i # 0
        THEN /\ tests' = [tests EXCEPT ![i].finishedAt = now]
             /\ req' = [req EXCEPT ![p] = Reply(@, 200, i)]
        ELSE /\ req' = [req EXCEPT ![p] = Reply(@, 500, 0)]
             /\ UNCHANGED tests
  /\ UNCHANGED <<bearerToken, now, files, dirs, disk, dispatches>>

(* -------------------- POST /test/:name/upload/file -------------------- *)
\* The request arrives and req.file() yields its file part, or none (the
\* handler then throws before it touches the store).
PostUpload(p, names, fnames, bodies) ==
  /\ req[p].pc = "done"
  /\ Len(files) + Cardinality(InFlight("upload")) < MaxFiles
  /\ Cardinality(DOMAIN disk) + Cardinality(InFlight("upload")) < MaxFiles
  /\ \E n \in names, hasFile \in BOOLEAN :
       IF hasFile
       THEN \E f \in fnames, b \in bodies :
              req' = [r \in Procs |->
                        IF r = p
                        THEN [NoRequest EXCEPT !.kind = "upload", !.pc = "db",
                                !.name = n, !.fname = f, !.byte = b[1],
                                !.len = b[2], !.conc = InFlight("upload") # {}]
                        ELSE IF r \in InFlight("upload")
                             THEN [req[r] EXCEPT !.conc = TRUE]
                             ELSE req[r]]
       ELSE req' = [req EXCEPT ![p] = UploadReply(NoRequest, 500, 0)]
  /\ UNCHANGED <<bearerToken, now, tests, files, dirs, disk, dispatches>>

\* path.join(upload_path, test.name)
testDir(name) == join(upload_path, name)

\* A mutation of filePath: the file goes to the store's root, whatever the test.
filePathInRoot(name, fname) ==
  join(upload_path, basename(IF fname = Undefined \/ fname = <<>>
                             THEN <<"u", "p", "l", "o", "a", "d">> ELSE fname))

\* path.join(testDir, path.basename(data.filename || "upload"))
filePath(name, fname) ==
  join(testDir(name), basename(IF fname = Undefined \/ fname = <<>>
                               THEN <<"u", "p", "l", "o", "a", "d">> ELSE fname))

\* A mutation of the lookup: the directory is made before the test is found.
UploadFindTestMkdirFirst(p) ==
  /\ req[p].kind = "upload" /\ req[p].pc = "db"
  /\ LET i == TestByName(req[p].name)
         dir == testDir(req[p].name)
     IN IF ~existsSync(dir) /\ ~CanMkdir(dir)
        THEN /\ req' = [req EXCEPT ![p] = UploadReply(@, 500, 0)]
             /\ UNCHANGED dirs
        ELSE /\ dirs' = dirs \cup Prefixes(dir)
             /\ IF i = 0
                THEN req' = [req EXCEPT ![p] = UploadReply(@, 404, 0)]
                ELSE req' = [req EXCEPT ![p] =
                       [@ EXCEPT !.pc = "open", !.tid = i,
                                 !.path = filePath(tests[i].name, req[p].fname)]]
  /\ UNCHANGED <<bearerToken, now, tests, files, disk, dispatches>>

\* prisma.test.findUnique, then up to the creation of the write stream: 404
\* without a test; the test's directory is made when nothing exists at its
\* path (500 when that fails); the target path is computed.
UploadFindTest(p) ==
  /\ req[p].kind = "upload" /\ req[p].pc = "db"
  /\ LET i == TestByName(req[p].name)
     IN IF i = 0
        THEN /\ req' = [req EXCEPT ![p] = UploadReply(@, 404, 0)]
             /\ UNCHANGED dirs
        ELSE LET dir == testDir(tests[i].name)
             IN IF ~existsSync(dir) /\ ~CanMkdir(dir)
                THEN /\ req' = [req EXCEPT ![p] = UploadReply(@, 500, 0)]
                     /\ UNCHANGED dirs
                ELSE /\ dirs' = IF existsSync(dir) THEN dirs
                                ELSE dirs \cup Prefixes(dir)
                     /\ req' = [req EXCEPT ![p] =
                          [@ EXCEPT !.pc = "open", !.tid = i,
                                    !.path = filePath(tests[i].name, req[p].fname)]]
  /\ UNCHANGED <<bearerToken, now, tests, files, disk, dispatches>>

\* The write stream opens its path with flag 'w': the file is created or
\* truncated; a failure rejects the pipeline, hence a 500.  An empty body
\* ends the pipeline at once.
UploadOpen(p) ==
  /\ req[p].kind = "upload" /\ req[p].pc = "open"
  /\ IF CanOpenForWrite(req[p].path)
     THEN /\ disk' = [q \in DOMAIN disk \cup {req[p].path} |->
                        IF q = req[p].path THEN <<>> ELSE disk[q]]
          /\ req' = [req EXCEPT ![p].pc = IF req[p].len = 0 THEN "insert"
                                          ELSE "write"]
     ELSE /\ req' = [req EXCEPT ![p] = UploadReply(@, 500, 0)]
          /\ UNCHANGED disk
  /\ UNCHANGED <<bearerToken, now, tests, files, dirs, dispatches>>

\* One chunk of the body is written at the stream's own offset; after the
\* last chunk the pipeline resolves.
UploadWrite(p) ==
  /\ req[p].kind = "upload" /\ req[p].pc = "write"
  /\ req[p].path \in DOMAIN disk
  /\ disk' = [disk EXCEPT ![req[p].path] =
                WriteAt(@, req[p].pos, req[p].byte)]
  /\ req' = [req EXCEPT ![p].pos = @ + 1,
                        ![p].pc = IF req[p].pos + 1 = req[p].len
                                  THEN "insert" ELSE "write"]
  /\ UNCHANGED <<bearerToken, now, tests, files, dirs, dispatches>>

\* The pipeline rejects in mid-stream (the transport's size limit is reached,
\* or the write fails): the handler throws, hence a 500; the bytes written
\* so far stay on disk.
UploadWriteFail(p) ==
  /\ req[p].kind = "upload" /\ req[p].pc = "write"
  /\ req' = [req EXCEPT ![p] = UploadReply(@, 500, 0)]
  /\ UNCHANGED <<bearerToken, now, tests, files, dirs, disk, dispatches>>

\* prisma.file.create with the client's filename, the path written and the
\* id of the test found.
UploadInsert(p) ==
  /\ req[p].kind = "upload" /\ req[p].pc = "insert"
  /\ files' = Append(files, NewFile(req[p].fname, req[p].path, req[p].tid))
  /\ req' = [req EXCEPT ![p] = UploadReply(@, 200, Len(files) + 1)]
  /\ UNCHANGED <<bearerToken, now, tests, dirs, disk, dispatches>>

\* A file of the artifact store is removed by something other than the
\* server, while no upload holds it open.
RemoveOutOfBand ==
  /\ \E path \in DOMAIN disk :
       /\ \A p \in Procs : ~(req[p].pc = "write" /\ req[p].path = path)
       /\ disk' = [q \in DOMAIN disk \ {path} |-> disk[q]]
  /\ UNCHANGED <<bearerToken, now, tests, files, dirs, req, dispatches>>

\* The process stops and is started again: every request in flight is lost,
\* the two tables and the artifact store stay as they are.
Crash ==
  /\ \E p \in Procs : req[p].pc # "done"
  /\ req' = [p \in Procs |-> NoRequest]
  /\ UNCHANGED <<bearerToken, now, tests, files, dirs, disk, dispatches>>

(* -------------- GET /public/file/:id/download and /view --------------- *)
GetFile(p, k, ids) ==
  /\ req[p].pc = "done"
  /\ \E id \in ids :
       req' = [req EXCEPT ![p] = [NoRequest EXCEPT !.kind = k, !.pc = "db",
                 !.name = id]]
  /\ UNCHANGED <<bearerToken, now, tests, files, dirs, disk, dispatches>>

\* prisma.file.findUnique: 404 without a row, 500 when the query is refused.
FileFind(p, k) ==
  /\ req[p].kind = k /\ req[p].pc = "db"
  /\ LET i == FindFile(req[p].name)
     IN req' = [req EXCEPT ![p] =
          IF i = -1 THEN Reply(@, 500, 0)
          ELSE IF i = 0 THEN Reply(@, 404, 0)
          ELSE [@ EXCEPT !.pc = "check", !.tid = i, !.path = files[i].path]]
  /\ UNCHANGED <<bearerToken, now, tests, files, dirs, disk, dispatches>>

\* A mutation of the check: the stream is sent whether or not the path exists.
FileOnDiskUnchecked(path) == TRUE

\* fs.existsSync(file.path) in the two retrieval handlers.
FileOnDisk(path) == existsSync(path)

\* 404 when the path is missing, else the read stream is sent (status 200,
\* out: the File row streamed) as an attachment or inline.
FileCheck(p, k) ==
  /\ req[p].kind = k /\ req[p].pc = "check"
  /\ req' = [req EXCEPT ![p] =
       IF ~FileOnDisk(req[p].path) THEN Reply(@, 404, req[p].tid)
       ELSE Reply(@, 200, req[p].tid)]
  /\ UNCHANGED <<bearerToken, now, tests, files, dirs, disk, dispatches>>

(* ------------------------- bearer-gated routes ------------------------ *)
\* POST /public/test/run: the body is validated before the preHandler runs.
PostRun(p, hdrs) ==
  /\ req[p].pc = "done"
  /\ dispatches + Cardinality(InFlight("run")) < MaxDispatch
  /\ \E valid \in BOOLEAN, h \in hdrs :
       req' = [req EXCEPT ![p] =
         IF valid THEN [NoRequest EXCEPT !.kind = "run", !.pc = "auth", !.hdr = h]
         ELSE Reply([NoRequest EXCEPT !.kind = "run"], 400, 0)]
  /\ UNCHANGED <<bearerToken, now, tests, files, dirs, disk, dispatches>>

GetInfo(p, names, hdrs) ==
  /\ req[p].pc = "done"
  /\ \E n \in names, h \in hdrs :
       req' = [req EXCEPT ![p] = [NoRequest EXCEPT !.kind = "info",
                 !.pc = "auth", !.name = n, !.hdr = h]]
  /\ UNCHANGED <<bearerToken, now, tests, files, dirs, disk, dispatches>>

GetList(p, hdrs) ==
  /\ req[p].pc = "done"
  /\ \E h \in hdrs :
       req' = [req EXCEPT ![p] = [NoRequest EXCEPT !.kind = "list",
                 !.pc = "auth", !.hdr = h]]
  /\ UNCHANGED <<bearerToken, now, tests, files, dirs, disk, dispatches>>

\* The preHandler of the three gated routes.
BearerGate(p) ==
  /\ req[p].pc = "auth"
  /\ req' = [req EXCEPT ![p] =
       IF bearerAuthHook(bearerToken, req[p].hdr) = 401
       THEN Reply([@ EXCEPT !.hdr = Undefined], 401, 0)
       ELSE [@ EXCEPT !.pc = "db", !.hdr = Undefined]]
  /\ UNCHANGED <<bearerToken, now, tests, files, dirs, disk, dispatches>>

\* A mutation of the handler: a call that raised is made a second time.
RunDispatchRetry(p) ==
  /\ req[p].kind = "run" /\ req[p].pc = "db"
  /\ \E raised \in BOOLEAN :
       /\ dispatches' = dispatches + (IF raised THEN 2 ELSE 1)
       /\ req' = [req EXCEPT ![p] = Reply(@, IF raised THEN 500 ELSE 204,
                                          IF raised THEN 1 ELSE 0)]
  /\ UNCHANGED <<bearerToken, now, tests, files, dirs, disk>>

\* octokit.actions.createWorkflowDispatch inside try/catch: one call, which
\* raises (out 1, caught, 500) or does not (out 0, 204).
RunDispatch(p) ==
  /\ req[p].kind = "run" /\ req[p].pc = "db"
  /\ dispatches' = dispatches + 1
  /\ \E raised \in BOOLEAN :
       req' = [req EXCEPT ![p] = Reply(@, IF raised THEN 500 ELSE 204,
                                          IF raised THEN 1 ELSE 0)]
  /\ UNCHANGED <<bearerToken, now, tests, files, dirs, disk>>

\* prisma.test.findUnique({ where: { name }, include: { files: true } })
InfoFind(p) ==
  /\ req[p].kind = "info" /\ req[p].pc = "db"
  /\ LET i == TestByName(req[p].name)
     IN req' = [req EXCEPT ![p] = IF i = 0 THEN Reply(@, 404, 0)
                                  ELSE Reply(@, 200, i)]
  /\ UNCHANGED <<bearerToken, now, tests, files, dirs, disk, dispatches>>

\* prisma.test.findMany: every test is returned (out: how many).
ListFind(p) ==
  /\ req[p].kind = "list" /\ req[p].pc = "db"
  /\ req' = [req EXCEPT ![p] = Reply(@, 200, Len(tests))]
  /\ UNCHANGED <<bearerToken, now, tests, files, dirs, disk, dispatches>>

(* --------------------------- specifications -------------------------- *)
\* A deployment with the secret configured.
InitConfigured == Init /\ bearerToken = <<"s", "t">>

\* The lifecycle routes and getInfo, with time passing.
LifeNames == { <<"a">>, <<Dot, Dot>> }

NextLife ==
  \/ Tick
  \/ \E p \in Procs :
       \/ PostTestNew(p, LifeNames) \/ TestCreate(p)
       \/ PostTestStart(p, LifeNames) \/ TestStart(p)
       \/ PostTestFinish(p, LifeNames) \/ TestFinish(p)
       \/ GetInfo(p, LifeNames, {Bearer \o <<"s", "t">>})
       \/ BearerGate(p) \/ InfoFind(p)

SpecLife == InitConfigured /\ [][NextLife]_vars

\* Every route that writes a row, at one instant.
NextNames ==
  \/ \E p \in Procs :
       \/ PostTestNew(p, LifeNames) \/ TestCreate(p)
       \/ PostTestStart(p, LifeNames) \/ TestStart(p)
       \/ PostTestFinish(p, LifeNames) \/ TestFinish(p)
  \/ \E p \in {"p"} :
       \/ PostUpload(p, LifeNames, {<<"b">>}, {<<"x", 1>>}) \/ UploadFindTest(p)
       \/ UploadOpen(p) \/ UploadWrite(p) \/ UploadInsert(p)

SpecNames == InitConfigured /\ [][NextNames]_vars

\* Registration and upload over every test name and filename.
NextPaths ==
  \/ \E p \in Procs : PostTestNew(p, TestNames) \/ TestCreate(p)
  \/ \E p \in {"p"} :
       \/ PostUpload(p, TestNames, FileNames, {<<"x", 1>>}) \/ UploadFindTest(p)
       \/ UploadOpen(p) \/ UploadWrite(p) \/ UploadInsert(p)

SpecPaths == InitConfigured /\ [][NextPaths]_vars

\* Uploads of every body to one test under one filename.
NextRace ==
  \E p \in Procs :
    \/ PostTestNew(p, {<<"a">>}) \/ TestCreate(p)
    \/ PostUpload(p, {<<"a">>}, {<<"b">>}, Bodies) \/ UploadFindTest(p)
    \/ UploadOpen(p) \/ UploadWrite(p) \/ UploadInsert(p)

SpecRace == InitConfigured /\ [][NextRace]_vars

\* Upload, out-of-band removal and retrieval.
NextFetch ==
  \/ RemoveOutOfBand
  \/ \E p \in Procs :
       \/ PostTestNew(p, {<<"a">>}) \/ TestCreate(p)
       \/ PostUpload(p, {<<"a">>}, {<<"b">>, <<>>}, {<<"x", 1>>}) \/ UploadFindTest(p)
       \/ UploadOpen(p) \/ UploadWrite(p) \/ UploadInsert(p)
       \/ GetFile(p, "download", IdParams) \/ GetFile(p, "view", IdParams)
       \/ FileFind(p, "download") \/ FileFind(p, "view")
       \/ FileCheck(p, "download") \/ FileCheck(p, "view")

SpecFetch == InitConfigured /\ [][NextFetch]_vars

\* The three gated routes, over every header and every configuration.
NextGate ==
  \E p \in Procs :
    \/ PostTestNew(p, TestNames) \/ TestCreate(p)
    \/ PostRun(p, Headers) \/ GetInfo(p, TestNames, Headers) \/ GetList(p, Headers)
    \/ BearerGate(p) \/ RunDispatch(p) \/ InfoFind(p) \/ ListFind(p)

SpecGate == Init /\ [][NextGate]_vars

\* Registration and upload of bodies of every length, with write failures
\* and restarts of the process; one test's directory lies below the other's.
NextCrash ==
  \/ Crash
  \/ \E p \in {"p"} :
       \/ PostTestNew(p, {<<"a">>, <<"a", "/", "b">>}) \/ TestCreate(p)
       \/ PostUpload(p, {<<"a">>, <<"a", "/", "b">>}, {<<"b">>, <<Dot>>},
                     {"x"} \X (0..MaxChunks))
       \/ UploadFindTest(p) \/ UploadOpen(p) \/ UploadWrite(p)
       \/ UploadWriteFail(p) \/ UploadInsert(p)

SpecCrash == InitConfigured /\ [][NextCrash]_vars

(* ------------------------------- claims ------------------------------- *)
\* The handler of slot p on route k makes its store call in this step.
Calls(p, k) ==
  /\ req[p].kind = k /\ req[p].pc = "db"
  /\ req'[p].kind = k /\ req'[p].pc # "db"

\* C1: create on a name that exists fails and leaves every Test row as it
\* was; create on a new name succeeds and inserts exactly one row, of that
\* name, with startedAt and finishedAt null, and from then on the lookup by
\* that name, and so getInfo(name), returns that row.
C1_CreateContract ==
  [][\A p \in Procs :
       /\ Calls(p, "create") =>
            IF TestByName(req[p].name) # 0
            THEN req'[p].status # 200 /\ tests' = tests
            ELSE /\ req'[p].status = 200
                 /\ Len(tests') = Len(tests) + 1
                 /\ SubSeq(tests', 1, Len(tests)) = tests
                 /\ tests'[Len(tests')].name = req[p].name
                 /\ tests'[Len(tests')].parameters = req[p].params
                 /\ tests'[Len(tests')].startedAt = Null
                 /\ tests'[Len(tests')].finishedAt = Null
                 /\ req'[p].out = Len(tests')
       /\ (Calls(p, "info") /\ TestByName(req[p].name) # 0) =>
            /\ req'[p].status = 200
            /\ tests[req'[p].out].name = req[p].name
            /\ \A i \in 1..Len(tests) :
                 tests[i].name = req[p].name => i = req'[p].out]_vars

\* A second create of a registered name was refused while getInfo returns
\* the row the first create inserted.
C1_Witness ==
  \E p, q \in Procs :
    /\ req[p].kind = "create" /\ req[p].pc = "done" /\ req[p].status = 500
    /\ req[q].kind = "info" /\ req[q].pc = "done" /\ req[q].status = 200
    /\ req[q].name = req[p].name
    /\ tests[req[q].out].name = req[p].name

\* C2: start on a test whose startedAt is set does not succeed and changes
\* no Test row, whatever happened to the test before (finish included).
C2_StartOnStartedNoEffect ==
  [][\A p \in Procs :
       (/\ Calls(p, "start")
        /\ TestByName(req[p].name) # 0
        /\ tests[TestByName(req[p].name)].startedAt # Null) =>
         req'[p].status # 200 /\ tests' = tests]_vars

\* A start was refused for a test that was started at an earlier time and
\* has finished since.
C2_Witness ==
  \E p \in Procs :
    /\ req[p].kind = "start" /\ req[p].pc = "done" /\ req[p].status = 500
    /\ TestByName(req[p].name) # 0
    /\ tests[TestByName(req[p].name)].startedAt # Null
    /\ tests[TestByName(req[p].name)].startedAt < now
    /\ tests[TestByName(req[p].name)].finishedAt # Null

\* C3: finish on a name that matches no Test answers not-found (404) and
\* creates or changes no Test row.
C3_FinishUnknownNotFound ==
  [][\A p \in Procs :
       (Calls(p, "finish") /\ TestByName(req[p].name) = 0) =>
         req'[p].status = 404 /\ tests' = tests]_vars

\* C4: an upload for a name that matches no Test answers 404 and ends there:
\* no directory is made, no file is written, no File row is inserted.
C4_UploadUnknownWritesNothing ==
  [][\A p \in Procs :
       (Calls(p, "upload") /\ TestByName(req[p].name) = 0) =>
         /\ req'[p].status = 404 /\ req'[p].pc = "done"
         /\ UNCHANGED <<dirs, disk, files>>]_vars

\* An upload was answered 404 while a test of another name is registered.
C4_Witness ==
  \E p \in Procs :
    /\ req[p].kind = "upload" /\ req[p].pc = "done" /\ req[p].status = 404
    /\ tests # <<>>

\* The paths whose bytes this step creates, truncates or writes.
Written == { path \in DOMAIN disk' :
               path \notin DOMAIN disk \/ disk'[path] # disk[path] }

C6_MissingOnDiskNotFound ==
  [][\A p \in Procs : \A k \in {"download", "view"} :
       /\ (req[p].kind = k /\ req[p].pc = "check" /\ req'[p] # req[p]) =>
            /\ req[p].tid \in 1..Len(files)
            /\ req'[p].pc = "done"
            /\ IF existsSync(files[req[p].tid].path)
               THEN req'[p].status = 200 /\ req'[p].out = req[p].tid
               ELSE req'[p].status = 404
       /\ Calls(p, k) => req'[p].status # 200]_vars

\* A retrieval was answered 404 for a File row whose file was removed from
\* the disk after its upload.
C6_Witness ==
  \E p \in Procs :
    /\ req[p].kind \in {"download", "view"} /\ req[p].pc = "done"
    /\ req[p].status = 404
    /\ req[p].out \in 1..Len(files)
    /\ ~existsSync(files[req[p].out].path)

\* The header that carries the configured secret.
ExactHeader(auth) ==
  /\ bearerToken # Undefined /\ bearerToken # <<>>
  /\ auth # Undefined
  /\ auth = Bearer \o bearerToken

\* C7: on the three gated routes the handler is reached only through the
\* gate, and the gate lets a request through exactly when a non-empty
\* secret is configured and the header is "Bearer " followed by it; every
\* other request is answered 401.
C7_GateExactMatch ==
  [][\A p \in Procs :
       /\ (req[p].pc = "auth" /\ req'[p] # req[p]) =>
            IF ExactHeader(req[p].hdr)
            THEN req'[p].pc = "db" /\ req'[p].status = 0
            ELSE req'[p].pc = "done" /\ req'[p].status = 401
       /\ (req'[p].kind \in {"run", "info", "list"} /\ req'[p].pc = "db"
           /\ req'[p] # req[p]) => req[p].pc = "auth"]_vars

\* With a secret configured, one gated request went through and was served
\* while another, on another route, was answered 401.
C7_Witness ==
  \E p, q \in Procs :
    /\ bearerToken = <<"s", "t">>
    /\ req[p].kind = "info" /\ req[p].pc = "done" /\ req[p].status = 200
    /\ req[q].kind = "list" /\ req[q].pc = "done" /\ req[q].status = 401

UniqueNames ==
  \A i, j \in 1..Len(tests) : tests[i].name = tests[j].name => i = j

\* C8: no two Test rows ever have the same name, and a create succeeds
\* exactly when its name is not registered at the moment it reaches the
\* store, so of creates of one name in flight together one succeeds and
\* the others fail.
C8_UniqueNames ==
  [][/\ UniqueNames'
     /\ \A p \in Procs :
          Calls(p, "create") =>
            /\ req'[p].status = 200 <=> TestByName(req[p].name) = 0
            /\ \A q \in Procs \ {p} :
                 (/\ req[q].kind = "create" /\ req[q].name = req[p].name
                  /\ req[q].pc = "done" /\ req[q].status = 200) =>
                   req'[p].status # 200]_vars

\* Two creates of one name have both been answered, one with success and
\* one with failure, while an upload to that test has completed.
C8_Witness ==
  \E p, q \in Procs :
    /\ req[p].kind = "create" /\ req[p].pc = "done" /\ req[p].status = 200
    /\ req[q].kind = "create" /\ req[q].pc = "done" /\ req[q].status = 500
    /\ req[p].name = req[q].name
    /\ \E i \in 1..Len(files) : files[i].testId = req[p].out

\* Two uploads that were in flight together, to one test, have both been
\* answered with success.
BothUploaded(p, q) ==
  /\ p # q
  /\ req[p].kind = "upload" /\ req[p].pc = "done" /\ req[p].status = 200
  /\ req[q].kind = "upload" /\ req[q].pc = "done" /\ req[q].status = 200
  /\ req[p].conc /\ req[q].conc
  /\ req[p].tid = req[q].tid
  /\ files[req[p].out].originalName = files[req[q].out].originalName

\* C9 as stated: after two concurrent uploads of one filename to one test,
\* both rows exist with one path, the bytes at that path are the body of
\* one of the two (the last writer), and so, the bodies differing, some
\* row's upload sent other bytes.
C9_LastWriterWins ==
  \A p, q \in Procs :
    BothUploaded(p, q) =>
      LET path == files[req[p].out].path
      IN /\ req[p].out # req[q].out
         /\ files[req[q].out].path = path
         /\ path \in DOMAIN disk
         /\ disk[path] \in {Content(req[p]), Content(req[q])}
         /\ Content(req[p]) # Content(req[q]) =>
              \E r \in {p, q} : disk[path] # Content(req[r])

\* C9 as amended: a concurrent upload of an ordinary filename to an existing
\* test is never refused; after two of them both rows exist with one path,
\* and every chunk at that path is the chunk one of the two sent at that
\* offset or a zero-filled gap, the file being no longer than the longer
\* body; it need not be either body, and when the bodies differ some row's
\* upload sent other bytes than the file holds.
C9_ConcurrentUploadsMix ==
  /\ \A p \in Procs :
       (req[p].kind = "upload" /\ req[p].pc = "done" /\ req[p].conc
        /\ req[p].tid # 0) => req[p].status = 200
  /\ \A p, q \in Procs :
       BothUploaded(p, q) =>
         LET path == files[req[p].out].path
         IN /\ req[p].out # req[q].out
            /\ files[req[q].out].path = path
            /\ path \in DOMAIN disk
            /\ Len(disk[path]) <= Max(req[p].len, req[q].len)
            /\ \A i \in 1..Len(disk[path]) :
                 \/ disk[path][i] = Hole
                 \/ i <= req[p].len /\ disk[path][i] = req[p].byte
                 \/ i <= req[q].len /\ disk[path][i] = req[q].byte
            /\ Content(req[p]) # Content(req[q]) =>
                 \E r \in {p, q} : disk[path] # Content(req[r])

\* Two concurrent uploads have completed and the file holds neither body.
C9_Witness ==
  \E p, q \in Procs :
    /\ BothUploaded(p, q)
    /\ files[req[p].out].path \in DOMAIN disk
    /\ disk[files[req[p].out].path] \notin {Content(req[p]), Content(req[q])}

\* C10: download and view find an existing File both by its numeric id and
\* by its uid, and go on to stream it when its path is on disk.
C10_ResolvesByIdAndUid ==
  [][\A p \in Procs : \A k \in {"download", "view"} :
       \A i \in 1..Len(files) :
         (/\ Calls(p, k)
          /\ \/ IsNumeric(req[p].name) /\ Number(req[p].name) = files[i].id
             \/ req[p].name = files[i].uid
          /\ existsSync(files[i].path)) =>
           req'[p].pc = "check" /\ req'[p].tid = i]_vars

\* C11: POST /public/test/run makes exactly one dispatch call for a request
\* that passed body validation and the gate, and none for a request either
\* of them rejected; the answer is 204 exactly when the call did not raise
\* and 500 when it raised; a call is never made again for the same request,
\* and no other step makes a call.
C11_OneDispatchPerAcceptedRun ==
  [][/\ \A p \in Procs :
          /\ Calls(p, "run") =>
               /\ dispatches' = dispatches + 1
               /\ req'[p].pc = "done"
               /\ req'[p].status = 204 <=> req'[p].out = 0
               /\ req'[p].status = 500 <=> req'[p].out = 1
          /\ (req'[p].kind = "run" /\ req'[p] # req[p]
              /\ req'[p].status \in {400, 401}) => dispatches' = dispatches
          /\ (req'[p].kind = "run" /\ req'[p].pc = "db" /\ req'[p] # req[p]) =>
               req[p].kind = "run" /\ req[p].pc = "auth" /\ ExactHeader(req[p].hdr)
     /\ dispatches' # dispatches => \E p \in Procs : Calls(p, "run")]_vars

\* One run request was rejected by the gate and made no call; another passed,
\* its one call raised and it was answered 500.
C11_Witness ==
  \E p, q \in Procs :
    /\ req[p].kind = "run" /\ req[p].pc = "done" /\ req[p].status = 500
    /\ req[p].out = 1
    /\ req[q].kind = "run" /\ req[q].pc = "done" /\ req[q].status = 401
    /\ dispatches = 1

C13_StartContract ==
  [][\A p \in Procs :
       Calls(p, "start") =>
         LET i == TestByName(req[p].name)
         IN IF i # 0 /\ tests[i].startedAt = Null
            THEN /\ req'[p].status = 200 /\ req'[p].out = i
                 /\ Len(tests') = Len(tests)
                 /\ tests'[i].startedAt = now
                 /\ tests'[i].finishedAt = Null
                 /\ tests'[i].id = tests[i].id
                 /\ tests'[i].name = tests[i].name
                 /\ tests'[i].createdAt = tests[i].createdAt
                 /\ tests'[i].parameters = tests[i].parameters
                 /\ \A j \in 1..Len(tests) : j # i => tests'[j] = tests[j]
            ELSE /\ req'[p].status \notin {0, 200}
                 /\ tests' = tests]_vars

\* A start succeeded, later than the test's registration, a finished row of
\* another name is in the table, and a second start of the same name was
\* answered with an error.
C13_Witness ==
  \E p, q \in Procs :
    /\ req[p].kind = "start" /\ req[p].pc = "done" /\ req[p].status = 200
    /\ tests[req[p].out].startedAt = now /\ tests[req[p].out].createdAt < now
    /\ tests[req[p].out].finishedAt = Null
    /\ \E j \in 1..Len(tests) : j # req[p].out /\ tests[j].finishedAt # Null
    /\ req[q].kind = "start" /\ req[q].pc = "done" /\ req[q].status = 500
    /\ req[q].name = tests[req[p].out].name

\* C14: the lifecycle only moves from registration through start to finish:
\* a Test whose finishedAt is set always has startedAt set (finish has no
\* effect on a test that was never started), and a finishedAt once set is
\* not cleared again (a finished test does not return to in-progress).
C14_LifecycleOrder ==
  [][\A i \in 1..Len(tests') :
       /\ tests'[i].finishedAt # Null => tests'[i].startedAt # Null
       /\ (i <= Len(tests) /\ tests[i].finishedAt # Null) =>
            tests'[i].finishedAt # Null]_vars

\* C15: for every test name that create accepts, ".." and names with a
\* directory separator included, each directory an upload makes and each
\* file it creates, truncates or writes lies strictly inside the root of
\* the artifact store.
C15_WritesStayInRoot ==
  [][/\ \A path \in Written : IsInside(path, upload_path)
     /\ \A dir \in dirs' \ dirs : IsInside(dir, upload_path)]_vars

\* C16: of the start requests in flight together for one registered test
\* that has not started, at most one succeeds; startedAt is written once,
\* by that start, on a row where it was null, and no later step of any
\* request changes it or removes the row.
C16_StartedAtWrittenOnce ==
  [][/\ Len(tests') >= Len(tests)
     /\ \A i \in 1..Len(tests) :
          /\ tests[i].startedAt # Null =>
               tests'[i].startedAt = tests[i].startedAt
          /\ tests'[i].startedAt # tests[i].startedAt =>
               \E p \in Procs :
                 /\ Calls(p, "start") /\ req[p].name = tests[i].name
                 /\ req'[p].status = 200 /\ req'[p].out = i
                 /\ tests'[i].startedAt = now
     /\ \A p \in Procs :
          (Calls(p, "start") /\ req'[p].status = 200) =>
            \A q \in Procs \ {p} :
              ~(/\ req[q].kind = "start" /\ req[q].name = req[p].name
                /\ req[q].pc = "done" /\ req[q].status = 200)]_vars

\* Two starts of one test that were in flight together have been answered,
\* one with success and one with an error, and the row still carries the
\* startedAt of that start at a later time.
C16_Witness ==
  \E p, q \in Procs :
    /\ req[p].kind = "start" /\ req[p].pc = "done" /\ req[p].status = 200
    /\ req[q].kind = "start" /\ req[q].pc = "done" /\ req[q].status = 500
    /\ req[p].conc /\ req[q].conc
    /\ req[p].name = req[q].name
    /\ tests[req[p].out].startedAt # Null
    /\ tests[req[p].out].startedAt < now

====
